---- MODULE Spec2Model ----
(***************************************************************************)
(* Model of the claude-mem custom-summary session runner                   *)
(* (src/services/worker/CustomSummaryAgent.ts) together with the session   *)
(* message queue, the Response Processor and the fallback agent it drives. *)
(*                                                                         *)
(* The runner (CustomSummaryAgent.startSession) is translated from its     *)
(* source.  SessionManager.getMessageIterator, processAgentResponse,       *)
(* isAbortError, shouldFallbackToClaude and the FallbackAgent are imported *)
(* by that file but their code is not part of the source tree; they are    *)
(* modelled from the design document (sections 4.1, 4.2, 4.5, 6 and 7).    *)
(***************************************************************************)
EXTENDS Integers, Sequences, FiniteSets, TLC

\* ---------------------------------------------------------------- bounds
MaxEvents == 2
MaxRuns == 2

Events == 1..MaxEvents
Kinds == {"observation", "summarize"}
Agents == {"primary", "fallback"}
Terminal == {"done", "failed", "aborted"}

VARIABLES
  status,                \* queue: event id -> none | pending | processing | confirmed
  kind,                  \* queue: event id -> observation | summarize
  persisted,             \* storage: events whose derived result is durably stored
  processingMessageIds,  \* session.processingMessageIds (in-flight list)
  conversationHistory,   \* session.conversationHistory
  memorySessionId,       \* session.memorySessionId is set
  fallbackAgent,         \* this.fallbackAgent !== null
  remoteMode,            \* settings.CLAUDE_MEM_REMOTE_MODE === 'true'
  cfgOk,                 \* apiUrl and apiKey are both configured
  aborted,               \* the session's external abort signal
  pc,                    \* position of the startSession promise
  agent,                 \* which runner drives the session
  cur,                   \* `message` of the drain loop (0: none)
  err,                   \* error caught by the try/catch ("none": none)
  raised,                \* error startSession rejected with ("none": none)
  runs,                  \* number of startSession invocations
  failovers,             \* fallbackAgent.startSession invocations of this run
  iterId,                \* number of message iterators created
  inFlight,              \* provider calls issued and not yet answered or failed
  diagnostics,           \* log entries written by the catch blocks of this run
  holders,               \* event id -> iterators that were handed the event and still hold it
  delivered,             \* events the drain loop has received
  called,                \* events whose provider call has been issued
  procLog,               \* event id -> agents whose response for it reached the Response Processor
  histAtFailure,         \* conversationHistory when the last error was raised
  fbReceived,            \* conversationHistory the fallback agent was handed
  fellBackAt,            \* `message` at the moment of the failover (0: none)
  failedEvents,          \* events whose processing raised an error in this run
  abortHeld              \* events that were claimed when the abort signal was raised

queueVars == <<status, kind, persisted>>
sessionVars == <<processingMessageIds, conversationHistory, memorySessionId>>
envVars == <<fallbackAgent, remoteMode, cfgOk>>
ctlVars == <<pc, agent, cur, err, raised, runs, failovers, iterId, inFlight,
            diagnostics>>
obsVars == <<holders, delivered, called, procLog, histAtFailure, fbReceived,
             fellBackAt, failedEvents, abortHeld>>

\* state of the acknowledgement protocol between the Response Processor and
\* the queue (design 4.1, 4.2)
VARIABLES
  results,               \* storage: event id -> number of durable results stored for it
  deliveries,            \* event id -> number of times claimNext handed it out
  confirms               \* event id -> number of confirm calls made for it

\* state of one provider query of the conversation
VARIABLES
  history,               \* the stored conversation passed to queryCustomAPIMultiTurn
  maxMessagesSetting,    \* settings.CLAUDE_MEM_CUSTOM_SUMMARY_MAX_CONTEXT_MESSAGES
  maxTokensSetting,      \* settings.CLAUDE_MEM_CUSTOM_SUMMARY_MAX_TOKENS
  truncatedHistory,      \* `truncatedHistory` of the last query
  requestMessages,       \* `messages` of the last request body
  requestSystem,         \* length of `system` of the last request body (0: empty or absent)
  requestShape,          \* wire shape of the last request ("none": no query yet)
  truncWarnings          \* truncation warnings logged by the last query

\* state of one provider call: configuration, request, reply
VARIABLES
  urlSetting,            \* settings.CLAUDE_MEM_CUSTOM_SUMMARY_API_URL
  apiFormat,             \* settings.CLAUDE_MEM_CUSTOM_SUMMARY_API_FORMAT
  apiUrl,                \* `apiUrl` returned by getCustomAPIConfig
  cpc,                   \* position of the call
  isAnthropic,           \* `isAnthropic` of queryCustomAPIMultiTurn
  logs,                  \* log entries written so far
  reply,                 \* the provider's HTTP reply
  thrown,                \* error thrown by queryCustomAPIMultiTurn
  returned,              \* value returned by queryCustomAPIMultiTurn
  usageWarnings,         \* totalTokens of the high-usage warnings logged
  cumulativeInputTokens, \* session.cumulativeInputTokens
  cumulativeOutputTokens \* session.cumulativeOutputTokens

\* the settings a run resolved and the settings its calls used
VARIABLES
  runConfig,             \* wire format and context limits in force when the run resolved
                         \* its configuration (<<>>: no run)
  callConfig             \* wire format and context limits the last call used (<<>>: no call)

\* the HTTP middleware: settings, one request, its outcome
VARIABLES
  remoteModeSetting,     \* settings.CLAUDE_MEM_REMOTE_MODE
  allowedOrigins,        \* entries written into settings.CLAUDE_MEM_ALLOWED_ORIGINS
  allowRemoteAdmin,      \* settings.CLAUDE_MEM_ALLOW_REMOTE_ADMIN
  reqOrigin,             \* Origin header of the request (<<>>: none)
  clientIp,              \* client address of the request
  corsResult,            \* outcome of the cors origin callback
  adminResult            \* what requireLocalhost did with the request (<<>>: no request)

\* the viewer's useProjectStats hook (unnamed/part_004)
VARIABLES
  isSidebarOpen,         \* the argument of the hook as last rendered
  stats,                 \* the stats state: 0 is the initial [], n the data of fetch n
  isLoading,
  error,            \* the error state (<<>>: null)
  cacheRef,              \* cacheRef.current (<<>>: null)
  clock,                 \* Date.now()
  pendingFetches,        \* fetches awaiting their reply, each with the `now` it captured
  fetchCount,            \* fetches issued so far
  fetched                \* the fetches that were answered successfully

ackVars == <<results, deliveries, confirms>>
cfgVars == <<runConfig, callConfig>>
httpVars == <<remoteModeSetting, allowedOrigins, allowRemoteAdmin, reqOrigin, clientIp,
              corsResult, adminResult>>
truncVars == <<history, maxMessagesSetting, maxTokensSetting, truncatedHistory,
               requestMessages, requestSystem, requestShape, truncWarnings>>
usageVars == <<usageWarnings, cumulativeInputTokens, cumulativeOutputTokens>>
callVars == <<urlSetting, apiFormat, apiUrl, cpc, isAnthropic, logs, reply, thrown,
              returned, usageVars>>
statsVars == <<isSidebarOpen, stats, isLoading, error, cacheRef, clock,
               pendingFetches, fetchCount, fetched>>
auxVars == <<ackVars, truncVars, callVars, cfgVars, httpVars, statsVars>>
runnerVars == <<queueVars, sessionVars, envVars, ctlVars, aborted, obsVars>>
vars == <<runnerVars, auxVars>>

\* ------------------------------------------------------------- helpers
Min(S) == CHOOSE x \in S : \A y \in S : x <= y

UserTurn(c) == [role |-> "user", content |-> c]

\* content tag of the init / continuation prompt
InitPromptTag == 0

\* --------------------------------------------------- queue (design 4.1)
Pending(st) == {e \in Events : st[e] = "pending"}

\* variant: the status test also lets an event in processing through
ClaimNext_IgnoresProcessing(st) ==
  IF {e \in Events : st[e] \in {"pending", "processing"}} = {} THEN 0
  ELSE Min({e \in Events : st[e] \in {"pending", "processing"}})

\* claimNext: the oldest pending event of the session, 0 at end of stream
ClaimNext(st) == IF Pending(st) = {} THEN 0 ELSE Min(Pending(st))

\* confirm(persistentId): marks the event confirmed; a no-op on an event
\* that is not in processing
Confirm(st, e) == IF st[e] = "processing" THEN [st EXCEPT ![e] = "confirmed"] ELSE st

RECURSIVE ConfirmAll(_, _)
ConfirmAll(st, ids) ==
  IF ids = <<>> THEN st ELSE ConfirmAll(Confirm(st, Head(ids)), Tail(ids))

\* ------------------------------------- error classification (design 7)
ErrorKinds == {"abort", "config", "precondition", "transport", "body", "persist"}
ProviderErrors == {"transport", "body"}

IsAbortError(e) == e = "abort"

ShouldFallbackToClaude(e) == e \in {"transport", "body"}

\* variant: the remote-mode condition is missing from the fallback test
CatchOutcome_NoRemoteCheck(e, fb, remote) ==
  IF IsAbortError(e) THEN "rethrow"
  ELSE IF ShouldFallbackToClaude(e) /\ fb THEN "fallback"
  ELSE "fail"

\* variant: the abort test is missing and an abort counts as a provider failure
CatchOutcome_NoAbortCheck(e, fb, remote) ==
  IF (ShouldFallbackToClaude(e) \/ IsAbortError(e)) /\ fb /\ ~remote THEN "fallback"
  ELSE "fail"

\* variant: every error that is not an abort is handed to the fallback
CatchOutcome_FallbackOnAnyError(e, fb, remote) ==
  IF IsAbortError(e) THEN "rethrow"
  ELSE IF fb /\ ~remote THEN "fallback"
  ELSE "fail"

\* the decision of the catch block of startSession
CatchOutcome(e, fb, remote) ==
  IF IsAbortError(e) THEN "rethrow"
  ELSE IF ShouldFallbackToClaude(e) /\ fb /\ ~remote THEN "fallback"
  ELSE "fail"

\* the log entries the catch block of startSession writes for the error e
CatchDiagnostics(e, fb, remote) ==
  IF IsAbortError(e) THEN <<[level |-> "warn", message |-> "Custom Summary agent aborted"]>>
  ELSE IF ShouldFallbackToClaude(e) /\ fb /\ ~remote
    THEN <<[level |-> "warn", message |-> "Custom API failed, falling back to Claude SDK"]>>
  ELSE (IF remote
          THEN <<[level |-> "error", message |-> "Custom API failed in remote mode"]>>
          ELSE <<>>)
       \o <<[level |-> "failure", message |-> "Custom Summary agent error"]>>

\* the fallback agent reports its own failure once; an abort is a warning
FallbackDiagnostics(e) ==
  IF IsAbortError(e) THEN <<[level |-> "warn", message |-> "fallback agent aborted"]>>
  ELSE <<[level |-> "failure", message |-> "fallback agent error"]>>

\* ---------------------------------------------------------------- Init
\* the worker after construction: empty queue, no session run yet
RunnerInit ==
  /\ status = [e \in Events |-> "none"]
  /\ kind = [e \in Events |-> "observation"]
  /\ persisted = {}
  /\ processingMessageIds = <<>>
  /\ conversationHistory = <<>>
  /\ memorySessionId = FALSE
  /\ fallbackAgent = FALSE
  /\ remoteMode \in BOOLEAN
  /\ cfgOk \in BOOLEAN
  /\ aborted = FALSE
  /\ pc = "idle"
  /\ agent = "primary"
  /\ cur = 0
  /\ err = "none"
  /\ raised = "none"
  /\ runs = 0
  /\ failovers = 0
  /\ iterId = 0
  /\ inFlight = 0
  /\ diagnostics = <<>>
  /\ holders = [e \in Events |-> {}]
  /\ delivered = {}
  /\ called = {}
  /\ procLog = [e \in Events |-> <<>>]
  /\ histAtFailure = <<>>
  /\ fbReceived = <<>>
  /\ fellBackAt = 0
  /\ failedEvents = {}
  /\ abortHeld = {}

\* nothing stored, delivered or confirmed yet
AckIdle ==
  /\ results = [e \in Events |-> 0]
  /\ deliveries = [e \in Events |-> 0]
  /\ confirms = [e \in Events |-> 0]

\* no conversation and no query yet, limits not set
TruncIdle ==
  /\ history = <<>>
  /\ maxMessagesSetting = <<>>
  /\ maxTokensSetting = <<>>
  /\ truncatedHistory = <<>>
  /\ requestMessages = <<>>
  /\ requestSystem = 0
  /\ requestShape = "none"
  /\ truncWarnings = <<>>

\* no warning logged, the session's token counters at zero
UsageIdle ==
  /\ usageWarnings = {}
  /\ cumulativeInputTokens = 0
  /\ cumulativeOutputTokens = 0

\* no provider call yet, endpoint not set
CallIdle ==
  /\ urlSetting = <<>>
  /\ apiFormat = "auto"
  /\ apiUrl = <<>>
  /\ cpc = "settings"
  /\ isAnthropic = FALSE
  /\ logs = {}
  /\ reply = <<>>
  /\ thrown = <<>>
  /\ returned = <<>>
  /\ UsageIdle

\* no run has resolved a configuration
CfgIdle ==
  /\ runConfig = <<>>
  /\ callConfig = <<>>

\* no request yet, settings at their defaults
HttpIdle ==
  /\ remoteModeSetting = "false"
  /\ allowedOrigins = <<>>
  /\ allowRemoteAdmin = "false"
  /\ reqOrigin = <<>>
  /\ clientIp = ""
  /\ corsResult = "none"
  /\ adminResult = <<>>

\* the hook as mounted by App: sidebar closed, nothing fetched
StatsIdle ==
  /\ isSidebarOpen = FALSE
  /\ stats = 0
  /\ isLoading = FALSE
  /\ error = <<>>
  /\ cacheRef = <<>>
  /\ clock = 0
  /\ pendingFetches = {}
  /\ fetchCount = 0
  /\ fetched = {}

Init == RunnerInit /\ AckIdle /\ TruncIdle /\ CallIdle /\ CfgIdle /\ HttpIdle /\ StatsIdle

\* the runner at rest in a local-mode, configured deployment
RunnerIdle == RunnerInit /\ ~remoteMode /\ cfgOk

\* an error e is thrown inside the try block while the history is h and the
\* loop variable `message` is c
Throw(e, h, c) ==
  /\ pc' = "catch"
  /\ err' = e
  /\ histAtFailure' = h
  /\ failedEvents' = IF c # 0 THEN failedEvents \cup {c} ELSE failedEvents

NoThrow == UNCHANGED <<err, histAtFailure, failedEvents>>

\* ------------------------------------------------------------- actions
\* enqueue(sessionId, event): producers append to the pending store
Enqueue ==
  /\ \E e \in Events, k \in Kinds :
       /\ status[e] = "none"
       /\ \A d \in Events : d < e => status[d] # "none"
       /\ status' = [status EXCEPT ![e] = "pending"]
       /\ kind' = [kind EXCEPT ![e] = k]
  /\ UNCHANGED <<persisted, sessionVars, envVars, ctlVars, aborted, obsVars>>
  /\ UNCHANGED auxVars

\* setFallbackAgent(agent), called once after construction
SetFallbackAgent ==
  /\ pc = "idle"
  /\ ~fallbackAgent
  /\ fallbackAgent' = TRUE
  /\ UNCHANGED <<queueVars, sessionVars, remoteMode, cfgOk, ctlVars, aborted, obsVars>>
  /\ UNCHANGED auxVars

\* startSession up to its first await: configuration check, synthetic
\* memory-session id, init prompt pushed, init call issued
StartSession ==
  /\ pc = "idle"
  /\ runs < MaxRuns
  /\ runs' = runs + 1
  /\ agent' = "primary"
  /\ cur' = 0
  /\ raised' = "none"
  /\ aborted' = FALSE
  /\ abortHeld' = {}
  /\ fellBackAt' = 0
  /\ IF ~cfgOk
       THEN /\ UNCHANGED sessionVars
            /\ pc' = "catch"
            /\ err' = "config"
            /\ histAtFailure' = conversationHistory
       ELSE /\ memorySessionId' = TRUE
            /\ conversationHistory' = Append(conversationHistory, UserTurn(InitPromptTag))
            /\ UNCHANGED processingMessageIds
            /\ pc' = "init_call"
            /\ err' = "none"
            /\ UNCHANGED histAtFailure
  /\ failedEvents' = {}
  /\ failovers' = 0
  /\ UNCHANGED <<queueVars, envVars, iterId, holders, delivered, called,
                 procLog, fbReceived>>
  /\ inFlight' = IF cfgOk THEN inFlight + 1 ELSE inFlight
  /\ diagnostics' = <<>>
  /\ UNCHANGED auxVars

\* the Response Processor acknowledges what the session records as in flight:
\* every id of processingMessageIds is confirmed and the list is cleared
ProcessAgentResponse ==
  /\ status' = ConfirmAll(status, processingMessageIds)
  /\ processingMessageIds' = <<>>
  /\ holders' = [e \in Events |->
                   IF status'[e] = "confirmed" THEN {} ELSE holders[e]]

\* reply of the init call: queryCustomAPIMultiTurn returns or throws
InitReply ==
  /\ pc = "init_call"
  /\ \E out \in {"text", "empty"} \cup ProviderErrors :
       CASE out = "text" ->
              /\ pc' = "init_proc"
              /\ NoThrow
              /\ UNCHANGED iterId
         [] out = "empty" ->
              /\ pc' = "iter"
              /\ iterId' = iterId + 1
              /\ NoThrow
         [] OTHER ->
              /\ Throw(out, conversationHistory, 0)
              /\ UNCHANGED iterId
  /\ UNCHANGED <<queueVars, sessionVars, envVars, aborted, agent, cur, raised, runs,
                 failovers, holders, delivered, called, procLog, fbReceived,
                 fellBackAt, abortHeld>>
  /\ inFlight' = inFlight - 1
  /\ UNCHANGED diagnostics
  /\ UNCHANGED auxVars

\* processAgentResponse for the init response returns or throws
ProcessInit ==
  /\ pc = "init_proc"
  /\ \E ok \in BOOLEAN :
       IF ok
         THEN /\ ProcessAgentResponse
              /\ pc' = "iter"
              /\ iterId' = iterId + 1
              /\ NoThrow
         ELSE /\ Throw("persist", conversationHistory, 0)
              /\ UNCHANGED <<status, processingMessageIds, holders, iterId>>
  /\ UNCHANGED <<kind, persisted, conversationHistory, memorySessionId, envVars, aborted,
                 agent, cur, raised, runs, failovers, delivered, called, procLog,
                 fbReceived, fellBackAt, abortHeld>>
  /\ UNCHANGED inFlight
  /\ UNCHANGED diagnostics
  /\ UNCHANGED auxVars

\* the message iterator is asked for the next event
Claim ==
  /\ pc = "iter"
  /\ IF aborted
       THEN /\ Throw("abort", conversationHistory, 0)
            /\ UNCHANGED <<status, holders, delivered, cur>>
       ELSE IF ClaimNext(status) = 0
         THEN /\ pc' = "done"
              /\ NoThrow
              /\ UNCHANGED <<status, holders, delivered, cur>>
         ELSE /\ status' = [status EXCEPT ![ClaimNext(status)] = "processing"]
              /\ holders' = [holders EXCEPT ![ClaimNext(status)] = @ \cup {iterId}]
              /\ delivered' = delivered \cup {ClaimNext(status)}
              /\ cur' = ClaimNext(status)
              /\ pc' = "got"
              /\ NoThrow
  /\ UNCHANGED <<kind, persisted, sessionVars, envVars, aborted, agent, raised, runs,
                 failovers, iterId, called, procLog, fbReceived, fellBackAt, abortHeld>>
  /\ UNCHANGED inFlight
  /\ UNCHANGED diagnostics
  /\ UNCHANGED auxVars

\* variant: the loop body matches neither message type and issues no call
Dispatch_SkipCall ==
  /\ pc = "got"
  /\ processingMessageIds' = Append(processingMessageIds, cur)
  /\ pc' = "iter"
  /\ NoThrow
  /\ UNCHANGED <<queueVars, conversationHistory, called, memorySessionId, envVars,
                 aborted, agent, cur, raised, runs, failovers, iterId, holders,
                 delivered, procLog, fbReceived, fellBackAt, abortHeld>>
  /\ UNCHANGED inFlight
  /\ UNCHANGED diagnostics
  /\ UNCHANGED auxVars

\* variant: the id is not recorded in flight before the call is issued
Dispatch_CallBeforeRecord ==
  /\ pc = "got"
  /\ UNCHANGED processingMessageIds
  /\ IF ~memorySessionId
       THEN /\ Throw("precondition", conversationHistory, cur)
            /\ UNCHANGED <<conversationHistory, called>>
       ELSE /\ conversationHistory' = Append(conversationHistory, UserTurn(cur))
            /\ called' = called \cup {cur}
            /\ pc' = "ev_call"
            /\ NoThrow
  /\ UNCHANGED <<queueVars, memorySessionId, envVars, aborted, agent, cur, raised, runs,
                 failovers, iterId, holders, delivered, procLog, fbReceived,
                 fellBackAt, abortHeld>>
  /\ inFlight' = IF memorySessionId THEN inFlight + 1 ELSE inFlight
  /\ UNCHANGED diagnostics
  /\ UNCHANGED auxVars

\* variant: the call is issued but not awaited, the loop goes on to the next
\* event
Dispatch_NoAwait ==
  /\ pc = "got"
  /\ processingMessageIds' = Append(processingMessageIds, cur)
  /\ IF ~memorySessionId
       THEN /\ Throw("precondition", conversationHistory, cur)
            /\ UNCHANGED <<conversationHistory, called>>
       ELSE /\ conversationHistory' = Append(conversationHistory, UserTurn(cur))
            /\ called' = called \cup {cur}
            /\ pc' = "iter"
            /\ NoThrow
  /\ UNCHANGED <<queueVars, memorySessionId, envVars, aborted, agent, cur, raised, runs,
                 failovers, iterId, holders, delivered, procLog, fbReceived,
                 fellBackAt, abortHeld>>
  /\ inFlight' = IF memorySessionId THEN inFlight + 1 ELSE inFlight
  /\ UNCHANGED diagnostics
  /\ UNCHANGED auxVars

\* variant: the call is issued without looking at the memory-session id
Dispatch_NoIdCheck ==
  /\ pc = "got"
  /\ processingMessageIds' = Append(processingMessageIds, cur)
  /\ conversationHistory' = Append(conversationHistory, UserTurn(cur))
  /\ called' = called \cup {cur}
  /\ pc' = "ev_call"
  /\ NoThrow
  /\ UNCHANGED <<queueVars, memorySessionId, envVars, aborted, agent, cur, raised, runs,
                 failovers, iterId, holders, delivered, procLog, fbReceived,
                 fellBackAt, abortHeld>>
  /\ inFlight' = inFlight + 1
  /\ UNCHANGED diagnostics
  /\ UNCHANGED auxVars

\* body of the drain loop up to the provider call: the id is recorded in
\* flight, the prompt is pushed and the call is issued
Dispatch ==
  /\ pc = "got"
  /\ processingMessageIds' = Append(processingMessageIds, cur)
  /\ IF ~memorySessionId
       THEN /\ Throw("precondition", conversationHistory, cur)
            /\ UNCHANGED <<conversationHistory, called>>
       ELSE /\ conversationHistory' = Append(conversationHistory, UserTurn(cur))
            /\ called' = called \cup {cur}
            /\ pc' = "ev_call"
            /\ NoThrow
  /\ UNCHANGED <<queueVars, memorySessionId, envVars, aborted, agent, cur, raised, runs,
                 failovers, iterId, holders, delivered, procLog, fbReceived,
                 fellBackAt, abortHeld>>
  /\ inFlight' = IF memorySessionId THEN inFlight + 1 ELSE inFlight
  /\ UNCHANGED diagnostics
  /\ UNCHANGED auxVars

\* reply of an observation / summarize call
EventReply ==
  /\ pc = "ev_call"
  /\ \E out \in {"text", "empty"} \cup ProviderErrors :
       IF out \in {"text", "empty"}
         THEN /\ pc' = "ev_proc"
              /\ NoThrow
         ELSE Throw(out, conversationHistory, cur)
  /\ UNCHANGED <<queueVars, sessionVars, envVars, aborted, agent, cur, raised, runs,
                 failovers, iterId, holders, delivered, called, procLog, fbReceived,
                 fellBackAt, abortHeld>>
  /\ inFlight' = inFlight - 1
  /\ UNCHANGED diagnostics
  /\ UNCHANGED auxVars

\* variant: the runner returns after the first event it has processed
ProcessEvent_ReturnAfterFirst ==
  /\ pc = "ev_proc"
  /\ \E ok \in BOOLEAN :
       IF ok
         THEN /\ persisted' = persisted \cup {cur}
              /\ procLog' = [procLog EXCEPT ![cur] = Append(@, agent)]
              /\ ProcessAgentResponse
              /\ pc' = "done"
              /\ cur' = 0
              /\ NoThrow
         ELSE /\ Throw("persist", conversationHistory, cur)
              /\ UNCHANGED <<status, persisted, processingMessageIds, holders, procLog, cur>>
  /\ UNCHANGED <<kind, conversationHistory, memorySessionId, envVars, aborted, agent,
                 raised, runs, failovers, iterId, delivered, called, fbReceived,
                 fellBackAt, abortHeld>>
  /\ UNCHANGED inFlight
  /\ UNCHANGED diagnostics
  /\ UNCHANGED auxVars

\* processAgentResponse for an event's response returns or throws
ProcessEvent ==
  /\ pc = "ev_proc"
  /\ \E ok \in BOOLEAN :
       IF ok
         THEN /\ persisted' = persisted \cup {cur}
              /\ procLog' = [procLog EXCEPT ![cur] = Append(@, agent)]
              /\ ProcessAgentResponse
              /\ pc' = "iter"
              /\ cur' = 0
              /\ NoThrow
         ELSE /\ Throw("persist", conversationHistory, cur)
              /\ UNCHANGED <<status, persisted, processingMessageIds, holders, procLog, cur>>
  /\ UNCHANGED <<kind, conversationHistory, memorySessionId, envVars, aborted, agent,
                 raised, runs, failovers, iterId, delivered, called, fbReceived,
                 fellBackAt, abortHeld>>
  /\ UNCHANGED inFlight
  /\ UNCHANGED diagnostics
  /\ UNCHANGED auxVars

\* variant: the fallback is started on a reset history
HandToFallback_Reset(h) == <<>>

\* the history the fallback agent is handed: session.conversationHistory itself
HandToFallback(h) == h

\* catch block of the primary's startSession
PrimaryCatch ==
  /\ pc = "catch"
  /\ agent = "primary"
  /\ CASE CatchOutcome(err, fallbackAgent, remoteMode) = "rethrow" ->
            /\ pc' = "aborted"
            /\ raised' = err
            /\ UNCHANGED <<conversationHistory, agent, cur, failovers, fbReceived, fellBackAt>>
       [] CatchOutcome(err, fallbackAgent, remoteMode) = "fallback" ->
            /\ pc' = "fb_start"
            /\ agent' = "fallback"
            /\ failovers' = failovers + 1
            /\ conversationHistory' = HandToFallback(conversationHistory)
            /\ fbReceived' = conversationHistory'
            /\ fellBackAt' = cur
            /\ cur' = 0
            /\ UNCHANGED raised
       [] OTHER ->
            /\ pc' = "failed"
            /\ raised' = err
            /\ UNCHANGED <<conversationHistory, agent, cur, failovers, fbReceived, fellBackAt>>
  /\ UNCHANGED <<queueVars, processingMessageIds, memorySessionId, envVars, aborted, err,
                 runs, iterId, holders, delivered, called, procLog, histAtFailure,
                 failedEvents, abortHeld>>
  /\ UNCHANGED inFlight
  /\ diagnostics' = diagnostics \o CatchDiagnostics(err, fallbackAgent, remoteMode)
  /\ UNCHANGED auxVars

\* fallbackAgent.startSession(session, worker) up to its first await.  The
\* fallback agent is a session runner of the same shape as the primary: after
\* its own init prompt it goes through InitReply, ProcessInit, Claim, Dispatch,
\* EventReply and ProcessEvent with agent = "fallback", on its own iterator.
FallbackStartSession ==
  /\ pc = "fb_start"
  /\ memorySessionId' = TRUE
  /\ conversationHistory' = Append(conversationHistory, UserTurn(InitPromptTag))
  /\ pc' = "init_call"
  /\ UNCHANGED <<queueVars, processingMessageIds, envVars, aborted, agent, cur, err,
                 raised, runs, failovers, iterId, obsVars>>
  /\ inFlight' = inFlight + 1
  /\ UNCHANGED diagnostics
  /\ UNCHANGED auxVars

\* variant: a failure of the fallback is routed to a provider once more
FallbackRejects_Retry ==
  /\ pc = "catch"
  /\ agent = "fallback"
  /\ pc' = "fb_start"
  /\ failovers' = failovers + 1
  /\ UNCHANGED <<queueVars, sessionVars, envVars, aborted, agent, cur, err, raised, runs,
                 iterId, obsVars>>
  /\ UNCHANGED inFlight
  /\ UNCHANGED diagnostics
  /\ UNCHANGED auxVars

\* the promise returned by fallbackAgent.startSession rejects: the rejection
\* is the result of the primary's startSession
FallbackRejects ==
  /\ pc = "catch"
  /\ agent = "fallback"
  /\ pc' = IF IsAbortError(err) THEN "aborted" ELSE "failed"
  /\ raised' = err
  /\ UNCHANGED <<queueVars, sessionVars, envVars, aborted, agent, cur, err, runs,
                 failovers, iterId, obsVars>>
  /\ UNCHANGED inFlight
  /\ diagnostics' = diagnostics \o FallbackDiagnostics(err)
  /\ UNCHANGED auxVars

\* the external abort signal of the session is raised
Abort ==
  /\ pc \notin {"idle"} \cup Terminal
  /\ ~aborted
  /\ aborted' = TRUE
  /\ abortHeld' = IF cur # 0 /\ status[cur] = "processing" THEN {cur} ELSE {}
  /\ UNCHANGED <<queueVars, sessionVars, envVars, ctlVars, holders, delivered, called,
                 procLog, histAtFailure, fbReceived, fellBackAt, failedEvents>>
  /\ UNCHANGED auxVars

\* the in-memory working copy of a session whose runner has ended is evicted;
\* the next run reconstructs it from durable state (the memory-session id is
\* durable, the history and the in-flight list are not)
Evict ==
  /\ pc \in Terminal
  /\ pc' = "idle"
  /\ processingMessageIds' = <<>>
  /\ conversationHistory' = <<>>
  /\ cur' = 0
  /\ agent' = "primary"
  /\ err' = "none"
  /\ raised' = "none"
  /\ failovers' = 0
  /\ aborted' = FALSE
  /\ abortHeld' = {}
  /\ histAtFailure' = <<>>
  /\ fbReceived' = <<>>
  /\ fellBackAt' = 0
  /\ failedEvents' = {}
  /\ UNCHANGED <<queueVars, memorySessionId, envVars, runs, iterId, holders, delivered,
                 called, procLog>>
  /\ UNCHANGED inFlight
  /\ diagnostics' = <<>>
  /\ UNCHANGED auxVars

\* variant: only an event that no iterator was handed is released
Release_OnlyUnheld ==
  /\ pc = "idle"
  /\ \E e \in Events :
       /\ status[e] = "processing"
       /\ holders[e] = {}
       /\ status' = [status EXCEPT ![e] = "pending"]
       /\ holders' = [holders EXCEPT ![e] = {}]
  /\ UNCHANGED <<kind, persisted, sessionVars, envVars, ctlVars, aborted, delivered,
                 called, procLog, histAtFailure, fbReceived, fellBackAt, failedEvents,
                 abortHeld>>
  /\ UNCHANGED auxVars

\* on restart, an event left in processing by a runner that has ended is
\* released back to pending
Release ==
  /\ pc = "idle"
  /\ \E e \in Events :
       /\ status[e] = "processing"
       /\ status' = [status EXCEPT ![e] = "pending"]
       /\ holders' = [holders EXCEPT ![e] = {}]
  /\ UNCHANGED <<kind, persisted, sessionVars, envVars, ctlVars, aborted, delivered,
                 called, procLog, histAtFailure, fbReceived, fellBackAt, failedEvents,
                 abortHeld>>
  /\ UNCHANGED auxVars

Next ==
  \/ Enqueue
  \/ SetFallbackAgent
  \/ StartSession
  \/ InitReply
  \/ ProcessInit
  \/ Claim
  \/ Dispatch
  \/ EventReply
  \/ ProcessEvent
  \/ PrimaryCatch
  \/ FallbackStartSession
  \/ FallbackRejects
  \/ Abort
  \/ Evict
  \/ Release

Spec == Init /\ [][Next]_vars

\* the promise chain of a started run makes progress (every awaited call
\* returns or throws), and the session store evicts and releases; producers,
\* the abort signal and new runs are not forced
RunnerFairness ==
  /\ WF_vars(InitReply)
  /\ WF_vars(ProcessInit)
  /\ WF_vars(Claim)
  /\ WF_vars(Dispatch)
  /\ WF_vars(EventReply)
  /\ WF_vars(ProcessEvent)
  /\ WF_vars(PrimaryCatch)
  /\ WF_vars(FallbackStartSession)
  /\ WF_vars(FallbackRejects)
  /\ WF_vars(Evict)
  /\ WF_vars(Release)

LiveSpec == Init /\ [][Next]_vars /\ RunnerFairness

\* the session object is shared with the rest of the worker: while the runner
\* awaits, the session's memory-session id is reset and the session is left
\* to be reinitialized
ResetMemorySessionId ==
  /\ pc \in {"init_call", "init_proc", "iter", "ev_call", "ev_proc"}
  /\ memorySessionId
  /\ memorySessionId' = FALSE
  /\ UNCHANGED <<queueVars, processingMessageIds, conversationHistory, envVars, ctlVars,
                 aborted, obsVars>>
  /\ UNCHANGED auxVars

SharedSessionNext ==
  \/ Next
  \/ ResetMemorySessionId

\* the runner on a session whose id other components may reset
SharedSessionSpec == Init /\ [][SharedSessionNext]_vars

\* ------------------------------------- acknowledgement protocol (4.1, 4.2)
MaxDeliveries == 2
MaxConfirms == 2

\* variant: every persistence inserts a new row
Store_Insert(res, e) == [res EXCEPT ![e] = @ + 1]

\* the Response Processor persists a result keyed by the originating event's
\* id: storing again for the same id replaces the stored result
Store(res, e) == [res EXCEPT ![e] = 1]

\* claimNext of any runner attempt of the session
QueueClaimNext ==
  /\ ClaimNext(status) # 0
  /\ deliveries[ClaimNext(status)] < MaxDeliveries
  /\ status' = [status EXCEPT ![ClaimNext(status)] = "processing"]
  /\ deliveries' = [deliveries EXCEPT ![ClaimNext(status)] = @ + 1]
  /\ UNCHANGED <<kind, persisted, sessionVars, envVars, ctlVars, aborted, obsVars,
                 results, confirms, truncVars, callVars>>
  /\ UNCHANGED <<cfgVars, httpVars, statsVars>>

\* a runner attempt that was handed the event has its result persisted; an
\* attempt that lost its lease may still get here after the redelivery
PersistResult ==
  /\ \E e \in Events :
       /\ deliveries[e] > 0
       /\ results' = Store(results, e)
  /\ UNCHANGED <<runnerVars, deliveries, confirms, truncVars, callVars>>
  /\ UNCHANGED <<cfgVars, httpVars, statsVars>>

\* confirm(persistentId), invoked after the result of the event is durable;
\* nothing prevents a second invocation for the same id
QueueConfirm ==
  /\ \E e \in Events :
       /\ results[e] > 0
       /\ confirms[e] < MaxConfirms
       /\ status' = Confirm(status, e)
       /\ confirms' = [confirms EXCEPT ![e] = @ + 1]
  /\ UNCHANGED <<kind, persisted, sessionVars, envVars, ctlVars, aborted, obsVars,
                 results, deliveries, truncVars, callVars>>
  /\ UNCHANGED <<cfgVars, httpVars, statsVars>>

\* the lease of a claimed event runs out: the event returns to pending
LeaseTimeout ==
  /\ \E e \in Events :
       /\ status[e] = "processing"
       /\ status' = [status EXCEPT ![e] = "pending"]
  /\ UNCHANGED <<kind, persisted, sessionVars, envVars, ctlVars, aborted, obsVars,
                 ackVars, truncVars, callVars>>
  /\ UNCHANGED <<cfgVars, httpVars, statsVars>>

AckInit == RunnerIdle /\ AckIdle /\ TruncIdle /\ CallIdle /\ CfgIdle /\ HttpIdle /\ StatsIdle

AckNext ==
  \/ Enqueue
  \/ QueueClaimNext
  \/ PersistResult
  \/ QueueConfirm
  \/ LeaseTimeout

AckSpec == AckInit /\ [][AckNext]_vars

\* ------------------------------------------- context bounding (352-391)
MaxTurns == 3
MaxMessagesSetting == 2
MaxTokensSetting == 3

DEFAULT_MAX_CONTEXT_MESSAGES == 20
DEFAULT_MAX_ESTIMATED_TOKENS == 100000
CHARS_PER_TOKEN_ESTIMATE == 4

\* a turn of the conversation; its content is represented by its length
Roles == {"user", "assistant"}
TurnChars == {1, CHARS_PER_TOKEN_ESTIMATE, CHARS_PER_TOKEN_ESTIMATE + 1}
Turns == [role : Roles, chars : TurnChars]

Histories(n) == UNION {[1..k -> Turns] : k \in 0..n}

\* a numeric setting: <<>> when unset or not a number, <<n>> otherwise
LimitSettings(max) == {<<>>} \cup {<<n>> : n \in 0..max}

\* parseInt(setting) || DEFAULT
LimitOrDefault(setting, default) ==
  IF setting = <<>> THEN default
  ELSE IF setting[1] = 0 THEN default
  ELSE setting[1]

MAX_CONTEXT_MESSAGES == LimitOrDefault(maxMessagesSetting, DEFAULT_MAX_CONTEXT_MESSAGES)
MAX_ESTIMATED_TOKENS == LimitOrDefault(maxTokensSetting, DEFAULT_MAX_ESTIMATED_TOKENS)

\* estimateTokens: Math.ceil(text.length / CHARS_PER_TOKEN_ESTIMATE)
EstimateTokens(chars) ==
  (chars + CHARS_PER_TOKEN_ESTIMATE - 1) \div CHARS_PER_TOKEN_ESTIMATE

\* history.reduce((sum, m) => sum + estimateTokens(m.content), 0)
RECURSIVE TotalTokens(_)
TotalTokens(h) ==
  IF h = <<>> THEN 0 ELSE EstimateTokens(Head(h).chars) + TotalTokens(Tail(h))

\* variant: the window closes one turn late
WindowFull_OneLate(n, max) == n > max

\* truncated.length >= MAX_CONTEXT_MESSAGES
WindowFull(n, max) == n >= max

\* variant: the warning reports the loop index
DroppedMessages_LoopIndex(i) == i

\* droppedMessages of the warning; i is the loop index, counted from 0
DroppedMessages(i) == i + 1

\* the sliding-window loop of truncateHistory from index i (counted from 0)
\* down, with `truncated` and `tokenCount` as accumulated so far
RECURSIVE SlidingWindow(_, _, _, _, _, _)
SlidingWindow(h, i, truncated, tokenCount, maxMessages, maxTokens) ==
  IF i < 0 THEN [truncated |-> truncated, warnings |-> <<>>]
  ELSE LET msg == h[i + 1]
           msgTokens == EstimateTokens(msg.chars)
       IN IF WindowFull(Len(truncated), maxMessages) \/ tokenCount + msgTokens > maxTokens
            THEN [truncated |-> truncated,
                  warnings |-> <<[originalMessages |-> Len(h),
                                  keptMessages |-> Len(truncated),
                                  droppedMessages |-> DroppedMessages(i)]>>]
            ELSE SlidingWindow(h, i - 1, <<msg>> \o truncated, tokenCount + msgTokens,
                               maxMessages, maxTokens)

\* truncateHistory(history): the bounded copy and the warnings it logs
TruncateHistory(h, maxMessages, maxTokens) ==
  IF Len(h) <= maxMessages /\ TotalTokens(h) <= maxTokens
    THEN [truncated |-> h, warnings |-> <<>>]
    ELSE SlidingWindow(h, Len(h) - 1, <<>>, 0, maxMessages, maxTokens)

\* conversationToOpenAIMessages
ConversationToOpenAIMessages(h) ==
  [i \in 1..Len(h) |->
     [role |-> IF h[i].role = "assistant" THEN "assistant" ELSE "user",
      chars |-> h[i].chars]]

\* extractUserMessages: an assistant turn is kept only after a user turn
RECURSIVE ExtractUserMessagesFrom(_, _)
ExtractUserMessagesFrom(h, result) ==
  IF h = <<>> THEN result
  ELSE IF Head(h).role = "user"
    THEN ExtractUserMessagesFrom(Tail(h), Append(result, [role |-> "user", chars |-> Head(h).chars]))
  ELSE IF Head(h).role = "assistant" /\ Len(result) > 0
    THEN ExtractUserMessagesFrom(Tail(h), Append(result, [role |-> "assistant", chars |-> Head(h).chars]))
  ELSE ExtractUserMessagesFrom(Tail(h), result)

ExtractUserMessages(h) == ExtractUserMessagesFrom(h, <<>>)

\* variant: the first turn is taken, whatever its role
ExtractSystemMessage_FirstTurn(h) == IF h = <<>> THEN 0 ELSE h[1].chars

\* extractSystemMessage: the content of history.find(m => m.role === 'user'),
\* '' when there is none; a content is modelled by its length
ExtractSystemMessage(h) ==
  IF h = <<>> THEN 0
  ELSE IF \E i \in 1..Len(h) : h[i].role = "user"
    THEN h[Min({i \in 1..Len(h) : h[i].role = "user"})].chars
  ELSE 0

\* variant: the window is cut out of the stored array itself
StoredAfterQuery_InPlace(stored, truncated) == truncated

\* session.conversationHistory after queryCustomAPIMultiTurn has bounded it
StoredAfterQuery(stored, truncated) == stored

\* scenario A of the design: one turn short of 25 turns, limits left at
\* their defaults
ScenarioAHistory ==
  [i \in 1..(DEFAULT_MAX_CONTEXT_MESSAGES + 4) |->
     [role |-> "user", chars |-> CHARS_PER_TOKEN_ESTIMATE]]

\* a session whose history was built by earlier calls and providers
TruncInit ==
  /\ RunnerIdle
  /\ AckIdle
  /\ CallIdle
  /\ CfgIdle
  /\ HttpIdle
  /\ StatsIdle
  /\ maxMessagesSetting \in LimitSettings(MaxMessagesSetting)
  /\ maxTokensSetting \in LimitSettings(MaxTokensSetting)
  /\ history \in Histories(MaxTurns - 1) \cup {ScenarioAHistory}
  /\ truncatedHistory = <<>>
  /\ requestMessages = <<>>
  /\ requestSystem = 0
  /\ requestShape = "none"
  /\ truncWarnings = <<>>

\* session.conversationHistory.push({role: 'user', ...}) followed by
\* queryCustomAPIMultiTurn up to the request it issues
PushAndQuery ==
  /\ Len(history) < MaxTurns \/ history = ScenarioAHistory
  /\ \E c \in TurnChars, anthropic \in BOOLEAN :
       LET pushed == Append(history, [role |-> "user", chars |-> c])
           t == TruncateHistory(pushed, MAX_CONTEXT_MESSAGES, MAX_ESTIMATED_TOKENS)
       IN /\ history' = StoredAfterQuery(pushed, t.truncated)
          /\ truncatedHistory' = t.truncated
          /\ truncWarnings' = t.warnings
          /\ requestShape' = IF anthropic THEN "anthropic" ELSE "openai"
          /\ requestMessages' = IF anthropic THEN ExtractUserMessages(t.truncated)
                                ELSE ConversationToOpenAIMessages(t.truncated)
          /\ requestSystem' = IF anthropic THEN ExtractSystemMessage(t.truncated) ELSE 0
  /\ UNCHANGED <<maxMessagesSetting, maxTokensSetting, runnerVars, ackVars, callVars>>
  /\ UNCHANGED <<cfgVars, httpVars, statsVars>>

TruncNext == PushAndQuery

TruncSpec == TruncInit /\ [][TruncNext]_vars

\* ----------------------------- endpoint, wire format, reply (318-339, 408-650)
MaxPathLen == 4

\* a string is a sequence of tokens; the tokens are chosen so that every
\* pattern the code searches for starts and ends at a token boundary
Scheme == <<"https:", "/", "/">>
UserInfo == <<"user:secret", "@">>
Hosts == {<<"api.", "example.com">>, <<"api.", "anthropic.com">>}
PathTokens == {"/", "v1", "messages", "completions"}
Paths == UNION {[1..k -> PathTokens] : k \in 0..MaxPathLen}

\* the endpoint setting: empty when unset, else a URL, with or without
\* credentials in front of the host
UrlSettings ==
  {<<>>} \cup {Scheme \o u \o h \o p : u \in {<<>>, UserInfo}, h \in Hosts, p \in Paths}

\* the format setting; "" when unset
FormatSettings == {"", "auto", "openai", "anthropic"}

\* settings.CLAUDE_MEM_CUSTOM_SUMMARY_API_FORMAT || 'auto'
FormatOrAuto(setting) == IF setting = "" THEN "auto" ELSE setting

ANTHROPIC_COM == <<"anthropic.com">>
V1_MESSAGES == <<"/", "v1", "/", "messages">>
MESSAGES == <<"/", "messages">>
CHAT_COMPLETIONS == <<"/", "chat", "/", "completions">>
COMPLETIONS == <<"/", "completions">>

\* String.prototype.includes
Includes(str, sub) ==
  \E i \in 1..(Len(str) - Len(sub) + 1) : SubSeq(str, i, i + Len(sub) - 1) = sub

\* String.prototype.endsWith
EndsWith(str, suffix) ==
  /\ Len(str) >= Len(suffix)
  /\ SubSeq(str, Len(str) - Len(suffix) + 1, Len(str)) = suffix

\* isAnthropicAPI(apiUrl), with the format setting it reads
IsAnthropicAPI(url, format) ==
  IF Includes(url, ANTHROPIC_COM) THEN TRUE
  ELSE IF format = "anthropic" THEN TRUE
  ELSE IF format = "openai" THEN FALSE
  ELSE Includes(url, V1_MESSAGES) \/ Includes(url, MESSAGES)

\* variant: the trailing slash is left in place
StripTrailingSlash_Keep(url) == url

\* apiUrl.replace(/\/$/, '')
StripTrailingSlash(url) ==
  IF url # <<>> /\ url[Len(url)] = "/" THEN SubSeq(url, 1, Len(url) - 1) ELSE url

\* hasEndpoint of getCustomAPIConfig
HasEndpoint(url) ==
  \/ EndsWith(url, CHAT_COMPLETIONS)
  \/ EndsWith(url, COMPLETIONS)
  \/ EndsWith(url, V1_MESSAGES)
  \/ EndsWith(url, MESSAGES)

\* isAnthropic of getCustomAPIConfig
ConfigIsAnthropic(url, format) == format = "anthropic" \/ Includes(url, ANTHROPIC_COM)

\* apiUrl returned by getCustomAPIConfig
GetCustomAPIConfig(url, format) ==
  IF url = <<>> THEN url
  ELSE IF HasEndpoint(url) THEN url
  ELSE StripTrailingSlash(url) \o
         (IF ConfigIsAnthropic(url, format) THEN V1_MESSAGES ELSE CHAT_COMPLETIONS)

\* the matches of /\/\/[^@]+@/ in str: <<i, j>> when the match runs from token
\* i to token j
CredentialMatches(str) ==
  {m \in (1..Len(str)) \X (1..Len(str)) :
     /\ m[1] + 3 <= m[2]
     /\ str[m[1]] = "/"
     /\ str[m[1] + 1] = "/"
     /\ str[m[2]] = "@"
     /\ \A k \in (m[1] + 2)..(m[2] - 1) : str[k] # "@"}

\* apiUrl.replace(/\/\/[^@]+@/, '//***@'): the leftmost match is replaced
Redact(str) ==
  IF CredentialMatches(str) = {} THEN str
  ELSE LET m == CHOOSE x \in CredentialMatches(str) :
                  \A y \in CredentialMatches(str) : x[1] <= y[1]
       IN SubSeq(str, 1, m[1] - 1) \o <<"/", "/", "***", "@">> \o
            SubSeq(str, m[2] + 1, Len(str))

LogEntry(level, field, value) == [level |-> level, field |-> field, value |-> value]

\* error objects a reply body can carry; "undefined" is an absent field
ErrorTypes == {"undefined", "invalid_request_error"}
ErrorCodes == {"undefined", "rate_limit_exceeded"}

\* CustomAPIResponse.error and AnthropicResponse.error
ErrorObjects(anthropic) ==
  {[type |-> t, code |-> c, message |-> "overloaded"] :
     t \in ErrorTypes, c \in IF anthropic THEN {"undefined"} ELSE ErrorCodes}

HIGH_USAGE_THRESHOLD == 50000

\* the usage object of a reply body: at the threshold, just above it, the
\* 60000 of scenario E, and a total whose 0.7 share is a whole number that
\* the double product falls short of
UsageReports ==
  {[input_tokens |-> u[1], output_tokens |-> u[2], total_tokens |-> u[1] + u[2]] :
     u \in {<<30000, 20000>>, <<30000, 20001>>, <<40000, 20000>>, <<60000, 30000>>}}

\* tokensUsed of queryCustomAPIMultiTurn: input_tokens + output_tokens in
\* the messages shape, usage.total_tokens in the generic shape, 0 without usage
TokensUsed(data, anthropic) ==
  IF data.usage = <<>> THEN 0
  ELSE IF anthropic THEN data.usage[1].input_tokens + data.usage[1].output_tokens
  ELSE data.usage[1].total_tokens

\* if (!data.choices?.[0]?.message?.content) return { content: '' }: the
\* generic shape returns on an empty text before it looks at the usage
ReturnsEmptyEarly(data, anthropic) == ~anthropic /\ ~data.content

\* the high-usage warning of a reply that got as far as the usage block
HighUsageWarnings(data, anthropic) ==
  IF /\ ~ReturnsEmptyEarly(data, anthropic)
     /\ data.usage # <<>>
     /\ TokensUsed(data, anthropic) > HIGH_USAGE_THRESHOLD
    THEN {TokensUsed(data, anthropic)}
    ELSE {}

\* the value queryCustomAPIMultiTurn returns; tokensUsed is <<>> when the
\* returned object has no such field
QueryResult(data, anthropic) ==
  IF ReturnsEmptyEarly(data, anthropic)
    THEN [content |-> "", tokensUsed |-> <<>>]
    ELSE [content |-> IF data.content THEN "text" ELSE "",
          tokensUsed |-> <<TokensUsed(data, anthropic)>>]

\* replies of the provider: the status, the body as text, the error object of
\* the parsed body (<<>>: none) and whether the body carries response text
Replies(anthropic) ==
  [status : {401, 503}, text : {"body text"}, error : {<<>>}, content : {FALSE},
   usage : {<<>>}]
  \cup
  [status : {200}, text : {"body text"},
   error : {<<e>> : e \in ErrorObjects(anthropic)}, content : BOOLEAN, usage : {<<>>}]
  \cup
  [status : {200}, text : {"body text"}, error : {<<>>}, content : BOOLEAN,
   usage : {<<>>} \cup {<<u>> : u \in UsageReports}]

\* response.ok
ResponseOk(code) == code >= 200 /\ code <= 299

\* variant: the error object of the body is not looked at
HasBodyError_Ignored(data) == FALSE

\* if (data.error)
HasBodyError(data) == data.error # <<>>

\* data.error.type || data.error.code (generic shape), data.error.type
\* (messages shape)
ErrorCode(e, anthropic) ==
  IF anthropic THEN e.type
  ELSE IF e.type # "undefined" THEN e.type ELSE e.code

ErrorPrefix(anthropic) == IF anthropic THEN "Anthropic API error" ELSE "Custom API error"

CallInit ==
  /\ RunnerIdle
  /\ AckIdle
  /\ TruncIdle
  /\ CfgIdle
  /\ HttpIdle
  /\ StatsIdle
  /\ urlSetting \in UrlSettings
  /\ apiFormat \in FormatSettings
  /\ apiUrl = <<>>
  /\ cpc = "settings"
  /\ isAnthropic = FALSE
  /\ logs = {}
  /\ reply = <<>>
  /\ thrown = <<>>
  /\ returned = <<>>
  /\ UsageIdle

\* startSession up to the configuration check: getCustomAPIConfig with its
\* debug entries, then the error for a missing URL
ResolveConfig ==
  /\ cpc = "settings"
  /\ apiUrl' = GetCustomAPIConfig(urlSetting, FormatOrAuto(apiFormat))
  /\ logs' = IF urlSetting # <<>> /\ ~HasEndpoint(urlSetting)
               THEN logs \cup {LogEntry("debug", "originalUrl", urlSetting),
                               LogEntry("debug", "finalUrl", apiUrl')}
               ELSE logs
  /\ IF apiUrl' = <<>>
       THEN /\ cpc' = "thrown"
            /\ thrown' = <<[prefix |-> "Custom API URL not configured", status |-> 0,
                            code |-> "", message |-> ""]>>
       ELSE /\ cpc' = "resolved"
            /\ UNCHANGED thrown
  /\ UNCHANGED <<urlSetting, apiFormat, isAnthropic, reply, returned, runnerVars,
                 ackVars, truncVars>>
  /\ UNCHANGED <<cfgVars, httpVars, statsVars>>
  /\ UNCHANGED usageVars

\* queryCustomAPIMultiTurn up to the fetch: format detection, the two debug
\* entries, the request
IssueRequest ==
  /\ cpc = "resolved"
  /\ isAnthropic' = IsAnthropicAPI(apiUrl, FormatOrAuto(apiFormat))
  /\ logs' = logs \cup {LogEntry("debug", "apiUrl", Redact(apiUrl)),
                         LogEntry("debug", "apiUrlRaw", apiUrl),
                         LogEntry("debug", "url", apiUrl)}
  /\ cpc' = "fetching"
  /\ UNCHANGED <<urlSetting, apiFormat, apiUrl, reply, thrown, returned, runnerVars,
                 ackVars, truncVars>>
  /\ UNCHANGED <<cfgVars, httpVars, statsVars>>
  /\ UNCHANGED usageVars

\* the rest of queryCustomAPIMultiTurn: the reply is examined
HandleReply ==
  /\ cpc = "fetching"
  /\ \E r \in Replies(isAnthropic) :
       /\ reply' = <<r>>
       /\ IF ~ResponseOk(r.status)
            THEN /\ cpc' = "thrown"
                 /\ thrown' = <<[prefix |-> ErrorPrefix(isAnthropic), status |-> r.status,
                                 code |-> "", message |-> r.text]>>
                 /\ UNCHANGED <<returned, usageWarnings>>
            ELSE IF HasBodyError(r)
              THEN /\ cpc' = "thrown"
                   /\ thrown' = <<[prefix |-> ErrorPrefix(isAnthropic), status |-> 0,
                                   code |-> ErrorCode(r.error[1], isAnthropic),
                                   message |-> r.error[1].message]>>
                   /\ UNCHANGED <<returned, usageWarnings>>
              ELSE /\ cpc' = "returned"
                   /\ returned' = <<QueryResult(r, isAnthropic)>>
                   /\ usageWarnings' = usageWarnings \cup HighUsageWarnings(r, isAnthropic)
                   /\ UNCHANGED thrown
  /\ UNCHANGED <<cumulativeInputTokens, cumulativeOutputTokens>>
  /\ UNCHANGED <<urlSetting, apiFormat, apiUrl, isAnthropic, logs, runnerVars, ackVars,
                 truncVars>>
  /\ UNCHANGED <<cfgVars, httpVars, statsVars>>

\* the largest power of two that is at most n (n >= 1)
RECURSIVE Pow2Floor(_)
Pow2Floor(n) == IF n < 2 THEN 1 ELSE 2 * Pow2Floor(n \div 2)

\* tokensUsed * 0.7 is a double product.  The double nearest to 0.7 is
\* 0.7 - 0.4 * 2^-53, so for tokensUsed = 10 k the exact product is
\* 7 k - 4 k * 2^-53; it is rounded to the double below 7 k when that
\* shortfall is more than half the spacing of the doubles below 7 k, which is
\* 2^e * 2^-53 for 2^e <= 7 k < 2^(e+1).  For every other tokensUsed the
\* product is at least 0.1 away from a whole number and the rounding does
\* not change its floor.
ProductBelowWhole(tokensUsed) ==
  /\ tokensUsed > 0
  /\ tokensUsed % 10 = 0
  /\ 4 * (tokensUsed \div 10) > Pow2Floor(7 * (tokensUsed \div 10))

\* Math.floor(tokensUsed * 0.7)
InputShare(tokensUsed) ==
  IF ProductBelowWhole(tokensUsed) THEN (tokensUsed * 7) \div 10 - 1
  ELSE (tokensUsed * 7) \div 10

\* Math.floor(tokensUsed * 0.3): the double product never falls below a
\* whole number it should reach
OutputShare(tokensUsed) == (tokensUsed * 3) \div 10

\* variant: the counters grow whatever the response text is
TrackUsage_CountsEmpty ==
  /\ cpc = "returned"
  /\ cpc' = "tracked"
  /\ LET response == returned[1]
         tokensUsed == IF response.tokensUsed = <<>> THEN 0 ELSE response.tokensUsed[1]
     IN /\ cumulativeInputTokens' = cumulativeInputTokens + InputShare(tokensUsed)
        /\ cumulativeOutputTokens' = cumulativeOutputTokens + OutputShare(tokensUsed)
  /\ UNCHANGED <<urlSetting, apiFormat, apiUrl, isAnthropic, logs, reply, thrown, returned,
                 usageWarnings, runnerVars, ackVars, truncVars>>
  /\ UNCHANGED <<cfgVars, httpVars, statsVars>>

\* startSession after the call: the counters grow only for a response with
\* text, by the two shares of `response.tokensUsed || 0`
TrackUsage ==
  /\ cpc = "returned"
  /\ cpc' = "tracked"
  /\ LET response == returned[1]
         tokensUsed == IF response.tokensUsed = <<>> THEN 0 ELSE response.tokensUsed[1]
     IN IF response.content # ""
          THEN /\ cumulativeInputTokens' = cumulativeInputTokens + InputShare(tokensUsed)
               /\ cumulativeOutputTokens' = cumulativeOutputTokens + OutputShare(tokensUsed)
          ELSE UNCHANGED <<cumulativeInputTokens, cumulativeOutputTokens>>
  /\ UNCHANGED <<urlSetting, apiFormat, apiUrl, isAnthropic, logs, reply, thrown, returned,
                 usageWarnings, runnerVars, ackVars, truncVars>>
  /\ UNCHANGED <<cfgVars, httpVars, statsVars>>

\* the session completes: the success entry with the endpoint
LogCompleted ==
  /\ cpc = "tracked"
  /\ cpc' = "completed"
  /\ logs' = logs \cup {LogEntry("success", "apiUrl", Redact(apiUrl))}
  /\ UNCHANGED <<urlSetting, apiFormat, apiUrl, isAnthropic, reply, thrown, returned,
                 runnerVars, ackVars, truncVars>>
  /\ UNCHANGED <<cfgVars, httpVars, statsVars>>
  /\ UNCHANGED usageVars

CallNext ==
  \/ ResolveConfig
  \/ IssueRequest
  \/ HandleReply
  \/ TrackUsage
  \/ LogCompleted

CallSpec == CallInit /\ [][CallNext]_vars

\* ------------------------- settings read during a run (108, 326, 353-356)
\* what a call takes from the settings file: the wire shape that
\* isAnthropicAPI picks for the endpoint and the two limits of truncateHistory
SettingsInForce(url) ==
  [anthropic |-> IsAnthropicAPI(url, FormatOrAuto(apiFormat)),
   maxMessages |-> MAX_CONTEXT_MESSAGES,
   maxTokens |-> MAX_ESTIMATED_TOKENS]

ConfigInit ==
  /\ RunnerIdle
  /\ AckIdle
  /\ TruncIdle
  /\ HttpIdle
  /\ StatsIdle
  /\ CfgIdle
  /\ urlSetting = Scheme \o <<"api.", "example.com">>
  /\ apiFormat = "auto"
  /\ apiUrl = <<>>
  /\ cpc = "settings"
  /\ isAnthropic = FALSE
  /\ logs = {}
  /\ reply = <<>>
  /\ thrown = <<>>
  /\ returned = <<>>
  /\ UsageIdle

\* the settings file is saved with new values (settings page, editor)
SaveSettings ==
  /\ apiFormat' \in FormatSettings
  /\ maxMessagesSetting' \in LimitSettings(MaxMessagesSetting)
  /\ maxTokensSetting' \in LimitSettings(MaxTokensSetting)
  /\ UNCHANGED <<history, truncatedHistory, requestMessages, requestSystem, requestShape,
                 truncWarnings,
                 urlSetting, apiUrl, cpc, isAnthropic, logs, reply, thrown, returned>>
  /\ UNCHANGED <<runnerVars, ackVars, cfgVars, httpVars, statsVars>>
  /\ UNCHANGED usageVars

\* startSession resolves its configuration once: endpoint, key and model are
\* taken from getCustomAPIConfig and passed to every call of the run
ResolveRunConfig ==
  /\ cpc = "settings"
  /\ apiUrl' = GetCustomAPIConfig(urlSetting, FormatOrAuto(apiFormat))
  /\ cpc' = "resolved"
  /\ runConfig' = <<SettingsInForce(apiUrl')>>
  /\ callConfig' = <<>>
  /\ UNCHANGED <<urlSetting, apiFormat, isAnthropic, logs, reply, thrown, returned>>
  /\ UNCHANGED <<runnerVars, ackVars, truncVars, httpVars, statsVars>>
  /\ UNCHANGED usageVars

\* one queryCustomAPIMultiTurn of the run: truncateHistory and isAnthropicAPI
\* load the settings file again
QueryWithSettings ==
  /\ cpc = "resolved"
  /\ callConfig' = <<SettingsInForce(apiUrl)>>
  /\ isAnthropic' = SettingsInForce(apiUrl).anthropic
  /\ UNCHANGED <<urlSetting, apiFormat, apiUrl, cpc, logs, reply, thrown, returned,
                 runConfig>>
  /\ UNCHANGED <<runnerVars, ackVars, truncVars, httpVars, statsVars>>
  /\ UNCHANGED usageVars

\* the run ends
EndRun ==
  /\ cpc = "resolved"
  /\ cpc' = "settings"
  /\ runConfig' = <<>>
  /\ callConfig' = <<>>
  /\ UNCHANGED <<urlSetting, apiFormat, apiUrl, isAnthropic, logs, reply, thrown,
                 returned>>
  /\ UNCHANGED <<runnerVars, ackVars, truncVars, httpVars, statsVars>>
  /\ UNCHANGED usageVars

ConfigNext ==
  \/ SaveSettings
  \/ ResolveRunConfig
  \/ QueryWithSettings
  \/ EndRun

ConfigSpec == ConfigInit /\ [][ConfigNext]_vars

\* --------------------------- HTTP middleware (cors origin, requireLocalhost)
MaxAllowedOrigins == 2

\* an origin is scheme, host and port; as a string it is a sequence of
\* tokens, cut where the code's prefixes and separators can begin or end
HttpSchemes == {<<"http">>, <<"http", "s">>}
OriginHosts ==
  {<<"192.168.1.100">>, <<"192.168.1.100", "0">>, <<"example.com">>, <<"evil.net">>,
   <<"localhost">>, <<"localhost", ".evil.net">>, <<"127.0.0.1">>}
OriginPorts == {<<>>, <<":", "8080">>}
Origins == [scheme : HttpSchemes, host : OriginHosts, port : OriginPorts]

\* the Origin header a browser sends for o
OriginString(o) == o.scheme \o <<":", "//">> \o o.host \o o.port

\* entries an administrator writes into CLAUDE_MEM_ALLOWED_ORIGINS: a host,
\* with or without scheme and port
AllowedHosts == {<<"192.168.1.100">>, <<"example.com">>}
AllowedEntries ==
  [scheme : {<<>>, <<"http">>}, host : AllowedHosts, port : {<<>>, <<":", "3000">>}]

EntryString(e) ==
  (IF e.scheme = <<>> THEN <<>> ELSE e.scheme \o <<":", "//">>) \o e.host \o e.port

\* the setting as a string: the entries separated by a comma and a blank
RECURSIVE JoinEntries(_)
JoinEntries(entries) ==
  IF entries = <<>> THEN <<>>
  ELSE IF Len(entries) = 1 THEN EntryString(entries[1])
  ELSE EntryString(entries[1]) \o <<",", " ">> \o JoinEntries(Tail(entries))

AllowedOriginsSettings == UNION {[1..k -> AllowedEntries] : k \in 0..MaxAllowedOrigins}

\* String.prototype.split(sep): the pieces between the separators; the
\* empty string gives one empty piece
RECURSIVE SplitFrom(_, _, _, _, _)
SplitFrom(str, sep, i, piece, pieces) ==
  IF i > Len(str) THEN Append(pieces, piece)
  ELSE IF str[i] = sep THEN SplitFrom(str, sep, i + 1, <<>>, Append(pieces, piece))
  ELSE SplitFrom(str, sep, i + 1, Append(piece, str[i]), pieces)

Split(str, sep) == SplitFrom(str, sep, 1, <<>>, <<>>)

\* String.prototype.trim
RECURSIVE Trim(_)
Trim(str) ==
  IF str = <<>> THEN str
  ELSE IF Head(str) = " " THEN Trim(Tail(str))
  ELSE IF str[Len(str)] = " " THEN Trim(SubSeq(str, 1, Len(str) - 1))
  ELSE str

\* String.prototype.startsWith
StartsWith(str, prefix) ==
  /\ Len(prefix) <= Len(str)
  /\ SubSeq(str, 1, Len(prefix)) = prefix

\* allowedOrigin.trim().split(':')[0]
AllowedBase(allowedOrigin) == Split(Trim(allowedOrigin), ":")[1]

\* the test of one entry of the whitelist
MatchesAllowedOrigin(origin, allowedOrigin) ==
  \/ StartsWith(origin, AllowedBase(allowedOrigin))
  \/ StartsWith(origin, <<"http", ":", "//">> \o AllowedBase(allowedOrigin))

\* allowedOrigins.some(...) over settings.CLAUDE_MEM_ALLOWED_ORIGINS.split(',')
InWhitelist(origin, setting) ==
  \E i \in 1..Len(Split(setting, ",")) : MatchesAllowedOrigin(origin, Split(setting, ",")[i])

\* variant: the local test leaves out the colon that ends the host
IsLocalOrigin_HostPrefix(origin) ==
  \/ StartsWith(origin, <<"http", ":", "//", "localhost">>)
  \/ StartsWith(origin, <<"http", ":", "//", "127.0.0.1">>)

\* origin.startsWith('http://localhost:') || origin.startsWith('http://127.0.0.1:')
IsLocalOrigin(origin) ==
  \/ StartsWith(origin, <<"http", ":", "//", "localhost", ":">>)
  \/ StartsWith(origin, <<"http", ":", "//", "127.0.0.1", ":">>)

\* the origin callback of the cors middleware; header is <<>> when the
\* request has no Origin header
CorsOrigin(header, remote, setting) ==
  IF header = <<>> THEN "allowed"
  ELSE IF remote = "true"
    THEN IF InWhitelist(header[1], setting) THEN "allowed" ELSE "rejected"
  ELSE IF IsLocalOrigin(header[1]) THEN "allowed"
  ELSE "rejected"

\* req.ip || req.connection.remoteAddress || '': the address of the socket
ClientAddresses ==
  {"127.0.0.1", "::1", "::ffff:127.0.0.1", "192.168.1.50", "::ffff:192.168.1.50", ""}

BooleanSettings == {"true", "false"}

\* variant: one of the two settings is enough
RemoteAdminAllowed_Either(remote, allowAdmin) == remote = "true" \/ allowAdmin = "true"

\* settings.CLAUDE_MEM_REMOTE_MODE === 'true' &&
\* settings.CLAUDE_MEM_ALLOW_REMOTE_ADMIN === 'true'
RemoteAdminAllowed(remote, allowAdmin) == remote = "true" /\ allowAdmin = "true"

IsLocalhost(ip) ==
  ip = "127.0.0.1" \/ ip = "::1" \/ ip = "::ffff:127.0.0.1" \/ ip = "localhost"

\* requireLocalhost: the status it responds with (0: it does not respond)
\* and whether it calls next()
RequireLocalhost(ip, remote, allowAdmin) ==
  IF RemoteAdminAllowed(remote, allowAdmin) THEN [status |-> 0, next |-> TRUE]
  ELSE IF ~IsLocalhost(ip) THEN [status |-> 403, next |-> FALSE]
  ELSE [status |-> 0, next |-> TRUE]

HttpInit ==
  /\ RunnerIdle
  /\ AckIdle
  /\ TruncIdle
  /\ CallIdle
  /\ CfgIdle
  /\ StatsIdle
  /\ remoteModeSetting \in BooleanSettings
  /\ allowedOrigins \in AllowedOriginsSettings
  /\ allowRemoteAdmin \in BooleanSettings
  /\ reqOrigin = <<>>
  /\ clientIp = ""
  /\ corsResult = "none"
  /\ adminResult = <<>>

\* a request passes the cors middleware
CorsRequest ==
  /\ \E header \in {<<>>} \cup {<<OriginString(o)>> : o \in Origins} :
       /\ reqOrigin' = header
       /\ corsResult' = CorsOrigin(header, remoteModeSetting, JoinEntries(allowedOrigins))
  /\ clientIp' = ""
  /\ adminResult' = <<>>
  /\ UNCHANGED <<remoteModeSetting, allowedOrigins, allowRemoteAdmin>>
  /\ UNCHANGED <<runnerVars, ackVars, truncVars, callVars, cfgVars, statsVars>>

\* a request to an admin endpoint passes requireLocalhost
AdminRequest ==
  /\ \E ip \in ClientAddresses :
       /\ clientIp' = ip
       /\ adminResult' = <<RequireLocalhost(ip, remoteModeSetting, allowRemoteAdmin)>>
  /\ reqOrigin' = <<>>
  /\ corsResult' = "none"
  /\ UNCHANGED <<remoteModeSetting, allowedOrigins, allowRemoteAdmin>>
  /\ UNCHANGED <<runnerVars, ackVars, truncVars, callVars, cfgVars, statsVars>>

HttpNext ==
  \/ CorsRequest
  \/ AdminRequest

HttpSpec == HttpInit /\ [][HttpNext]_vars

\* ------------------------------------ useProjectStats (unnamed/part_004 12-61)
MaxTicks == 3
MaxFetches == 3

CACHE_DURATION_MS == 5 * 60 * 1000

\* the clock advances in steps of half the cache duration
TickMs == CACHE_DURATION_MS \div 2

\* cacheRef.current && (now - cacheRef.current.timestamp) < CACHE_DURATION_MS
CacheFresh(cache, now) ==
  cache # <<>> /\ now - cache[1].timestamp < CACHE_DURATION_MS

\* the body of the effect when isSidebarOpen is true: the cached data, or a
\* fetch that captures `now`
OpenEffect ==
  LET now == clock
  IN IF CacheFresh(cacheRef, now)
       THEN /\ stats' = cacheRef[1].data
            /\ UNCHANGED <<isLoading, error, cacheRef, pendingFetches, fetchCount>>
       ELSE /\ fetchCount < MaxFetches
            /\ isLoading' = TRUE
            /\ error' = <<>>
            /\ fetchCount' = fetchCount + 1
            /\ pendingFetches' = pendingFetches \cup {[id |-> fetchCount + 1, now |-> now]}
            /\ UNCHANGED <<stats, cacheRef>>

StatsInit ==
  /\ RunnerIdle
  /\ AckIdle
  /\ TruncIdle
  /\ CallIdle
  /\ CfgIdle
  /\ HttpIdle
  /\ StatsIdle

\* the sidebar is opened: the effect runs with isSidebarOpen true
OpenSidebar ==
  /\ ~isSidebarOpen
  /\ isSidebarOpen' = TRUE
  /\ OpenEffect
  /\ UNCHANGED <<clock, fetched>>
  /\ UNCHANGED <<runnerVars, ackVars, truncVars, callVars, cfgVars, httpVars>>

\* the sidebar is closed: the effect runs and returns at once
CloseSidebar ==
  /\ isSidebarOpen
  /\ isSidebarOpen' = FALSE
  /\ UNCHANGED <<stats, isLoading, error, cacheRef, clock, pendingFetches,
                 fetchCount, fetched>>
  /\ UNCHANGED <<runnerVars, ackVars, truncVars, callVars, cfgVars, httpVars>>

\* time passes
Tick ==
  /\ clock < MaxTicks * TickMs
  /\ clock' = clock + TickMs
  /\ UNCHANGED <<isSidebarOpen, stats, isLoading, error, cacheRef, pendingFetches,
                 fetchCount, fetched>>
  /\ UNCHANGED <<runnerVars, ackVars, truncVars, callVars, cfgVars, httpVars>>

\* a fetch is answered with response.ok: the try block runs to its end, then
\* the finally block
FetchSucceeds ==
  /\ \E f \in pendingFetches :
       /\ cacheRef' = <<[data |-> f.id, timestamp |-> f.now]>>
       /\ stats' = f.id
       /\ isLoading' = FALSE
       /\ pendingFetches' = pendingFetches \ {f}
       /\ fetched' = fetched \cup {f}
  /\ UNCHANGED <<isSidebarOpen, error, clock, fetchCount>>
  /\ UNCHANGED <<runnerVars, ackVars, truncVars, callVars, cfgVars, httpVars>>

\* a fetch rejects or is answered with a status that is not ok: the catch
\* block, then the finally block
FetchFails ==
  /\ \E f \in pendingFetches :
       /\ error' = <<"HTTP 500: Internal Server Error">>
       /\ isLoading' = FALSE
       /\ pendingFetches' = pendingFetches \ {f}
  /\ UNCHANGED <<isSidebarOpen, stats, cacheRef, clock, fetchCount, fetched>>
  /\ UNCHANGED <<runnerVars, ackVars, truncVars, callVars, cfgVars, httpVars>>

StatsNext ==
  \/ OpenSidebar
  \/ CloseSidebar
  \/ Tick
  \/ FetchSucceeds
  \/ FetchFails

StatsSpec == StatsInit /\ [][StatsNext]_vars

\* ---------------------------------------------------------------- claims
\* C1: an event is confirmed only if the observation or summary derived from
\* that same event has already been durably persisted, on every path
\* including the failover path.
C1_ConfirmedOnlyAfterPersisted ==
  \A e \in Events : status[e] = "confirmed" => e \in persisted

IsPrefix(s, t) == Len(s) <= Len(t) /\ SubSeq(t, 1, Len(s)) = s

\* C2: events of the session reach the drain loop in enqueue order: when an
\* event has been received, the provider call of every event enqueued before
\* it has already been issued.
C2_FifoPerSession ==
  \A e1, e2 \in Events : (e1 < e2 /\ e2 \in delivered) => e1 \in called

C2_Witness ==
  /\ 2 \in delivered
  /\ 1 \in called
  /\ status[2] = "processing"
  /\ pc = "ev_call"

C4_FallbackRetriesFailedCall ==
  (pc = "done" /\ agent = "fallback" /\ fellBackAt # 0) =>
     procLog[fellBackAt] = <<"fallback">>

\* C5: the fallback agent is invoked only if the error is fallback-eligible, a
\* fallback agent is registered and the deployment is not in remote mode;
\* otherwise the fallback is not invoked and the original error is re-raised.
C5_FallbackOnlyIfAllThree ==
  /\ [][failovers' > failovers =>
          (err \in ProviderErrors /\ fallbackAgent /\ ~remoteMode)]_vars
  /\ [][(pc = "catch" /\ agent = "primary" /\ pc' # "catch"
           /\ ~(err \in ProviderErrors /\ fallbackAgent /\ ~remoteMode)) =>
          (failovers' = failovers /\ pc' \in {"failed", "aborted"} /\ raised' = err)]_vars

C5_Witness ==
  /\ pc = "failed"
  /\ raised \in ProviderErrors
  /\ fallbackAgent
  /\ remoteMode
  /\ failovers = 0

\* C6: when the session ends in failure, startSession raises an error and
\* every event whose processing failed is still in processing.
C6_FailureLeavesEventProcessing ==
  pc = "failed" =>
     (raised # "none" /\ \A e \in failedEvents : status[e] = "processing")

\* C7: at most one failover happens per run; an error raised by the fallback
\* is not routed to any further provider, it is the failure of the session.
C7_AtMostOneFailover ==
  /\ [](failovers <= 1)
  /\ [][(pc = "catch" /\ agent = "fallback" /\ pc' # "catch") =>
          (pc' \in {"failed", "aborted"} /\ raised' = err /\ failovers' = failovers)]_vars

C7_Witness ==
  /\ pc = "failed"
  /\ agent = "fallback"
  /\ failovers = 1
  /\ raised \in ProviderErrors

\* C8: the fallback is handed the session's conversation history with exactly
\* the turns it held when the primary failed, and goes on from it.
C8_FallbackGetsSameHistory ==
  /\ pc = "fb_start" =>
       (fbReceived = histAtFailure /\ conversationHistory = histAtFailure)
  /\ (agent = "fallback" /\ pc # "idle") => IsPrefix(fbReceived, conversationHistory)

C8_Witness ==
  /\ pc = "fb_start"
  /\ fellBackAt # 0
  /\ Len(fbReceived) >= 2
  /\ fbReceived[Len(fbReceived)] = UserTurn(fellBackAt)

\* C9: an abort error caught by startSession is re-raised to the caller and
\* never leads to the fallback agent, whatever the registration and the mode.
C9_AbortNeverFallsBack ==
  [][(pc = "catch" /\ err = "abort" /\ pc' # "catch") =>
       (pc' = "aborted" /\ raised' = "abort" /\ failovers' = failovers)]_vars

C9_Witness ==
  /\ pc = "aborted"
  /\ raised = "abort"
  /\ fallbackAgent
  /\ ~remoteMode

\* C10: after the abort signal is raised while an event is claimed, that event
\* stays in processing and the runner claims no further event.
C10_AbortLeavesClaimedEventProcessing ==
  /\ [](\A e \in abortHeld : status[e] = "processing")
  /\ [][aborted => delivered' = delivered]_vars

Fits(h) == Len(h) <= MAX_CONTEXT_MESSAGES /\ TotalTokens(h) <= MAX_ESTIMATED_TOKENS

\* the last n turns of h
Suffix(h, n) == SubSeq(h, Len(h) - n + 1, Len(h))

C14_TruncateKeepsLongestSuffix ==
  requestShape # "none" =>
     /\ Fits(history) => (truncatedHistory = history /\ truncWarnings = <<>>)
     /\ ~Fits(history) =>
          /\ Len(truncatedHistory) < Len(history)
          /\ truncatedHistory = Suffix(history, Len(truncatedHistory))
          /\ Fits(truncatedHistory)
          /\ \A n \in (Len(truncatedHistory) + 1)..Len(history) : ~Fits(Suffix(history, n))
          /\ Len(truncWarnings) = 1
          /\ truncWarnings[1].droppedMessages = Len(history) - Len(truncatedHistory)
     /\ (Len(history) = 25 /\ MAX_CONTEXT_MESSAGES = 20 /\ TotalTokens(history) <= MAX_ESTIMATED_TOKENS) =>
          /\ truncatedHistory = Suffix(history, 20)
          /\ truncWarnings[1].droppedMessages = 5

C14_Witness ==
  /\ requestShape # "none"
  /\ Len(history) = 25
  /\ MAX_CONTEXT_MESSAGES = 20
  /\ Len(truncatedHistory) = 20
  /\ Len(truncWarnings) = 1
  /\ truncWarnings[1].droppedMessages = 5

\* C15: the stored conversation is append-only: a step leaves it unchanged or
\* appends one turn at its end, and bounding it for a provider call leaves the
\* stored history as it was, in length, order and content.
C15_StoredHistoryAppendOnly ==
  [][\/ history' = history
     \/ /\ Len(history') = Len(history) + 1
        /\ SubSeq(history', 1, Len(history)) = history]_vars

C15_Witness ==
  /\ requestShape # "none"
  /\ truncWarnings # <<>>
  /\ Len(truncatedHistory) < Len(history)
  /\ Len(history) = MaxTurns

\* a request has been issued by the call
RequestIssued == cpc = "fetching" \/ reply # <<>>

\* C16: with the format setting explicitly 'openai' or 'anthropic' the request
\* is issued in that shape whatever the endpoint URL is; with 'auto' the request
\* is in the messages shape exactly when the URL is on the anthropic.com domain
\* or ends in the messages-style path.
C16_ExplicitFormatWins ==
  RequestIssued =>
     CASE FormatOrAuto(apiFormat) = "openai" -> ~isAnthropic
       [] FormatOrAuto(apiFormat) = "anthropic" -> isAnthropic
       [] OTHER -> isAnthropic = (\/ Includes(apiUrl, ANTHROPIC_COM)
                                  \/ EndsWith(apiUrl, V1_MESSAGES)
                                  \/ EndsWith(apiUrl, MESSAGES))

ExampleUrl == Scheme \o <<"api.", "example.com">>

C18_ErrorRepliesRaise ==
  (reply # <<>>) =>
     LET r == reply[1]
     IN /\ ~(r.status >= 200 /\ r.status < 300) =>
             /\ cpc = "thrown"
             /\ returned = <<>>
             /\ thrown # <<>>
             /\ thrown[1].status = r.status
             /\ thrown[1].message = r.text
        /\ ((r.status >= 200 /\ r.status < 300) /\ r.error # <<>>) =>
             /\ cpc = "thrown"
             /\ returned = <<>>
             /\ thrown # <<>>
             /\ r.error[1].type # "undefined" => thrown[1].code = r.error[1].type
             /\ (r.error[1].type = "undefined" /\ r.error[1].code # "undefined") =>
                  thrown[1].code = r.error[1].code
             /\ thrown[1].message = r.error[1].message

C18_Witness ==
  /\ cpc = "thrown"
  /\ isAnthropic
  /\ reply # <<>>
  /\ reply[1].status = 200
  /\ reply[1].error # <<>>
  /\ thrown[1].code = "invalid_request_error"
  /\ returned = <<>>

\* the tokens of a string that are credentials
CredentialTokens == {"user:secret"}

HasCredential(str) == \E i \in 1..Len(str) : str[i] \in CredentialTokens

\* C19: no log entry and no raised error text contains a credential: a URL
\* that embeds credentials is only ever logged in redacted form, at every log
\* level and in every call.
C19_NoCredentialInLogsOrErrors ==
  /\ \A entry \in logs : ~HasCredential(entry.value)
  /\ thrown # <<>> =>
       /\ thrown[1].message \notin CredentialTokens
       /\ thrown[1].code \notin CredentialTokens
       /\ thrown[1].prefix \notin CredentialTokens

\* C20: a missing endpoint URL or credential makes startSession raise a
\* configuration error before any provider call and before any event is
\* claimed, and the fallback agent is never invoked for it.
C20_ConfigErrorIsFatal ==
  /\ []((err = "config" /\ pc \in {"catch", "failed"}) =>
          (conversationHistory = <<>> /\ processingMessageIds = <<>> /\ cur = 0
             /\ failovers = 0))
  /\ [][(pc = "catch" /\ err = "config" /\ pc' # "catch") =>
          (pc' = "failed" /\ raised' = "config" /\ failovers' = failovers
             /\ iterId' = iterId /\ called' = called /\ delivered' = delivered)]_vars

C20_Witness ==
  /\ pc = "failed"
  /\ raised = "config"
  /\ fallbackAgent
  /\ ~remoteMode
  /\ Pending(status) # {}

\* C21: no provider call for a queue event is issued while the session has no
\* memory-session id: a call is issued only from a state where the id is set,
\* and when the id is absent as a drained event reaches the check, the runner
\* raises the precondition error for it, with no call and no prompt pushed
C21_NoCallWithoutMemorySessionId ==
  [][/\ (pc' = "ev_call" /\ pc # "ev_call") => memorySessionId
     /\ (pc = "got" /\ ~memorySessionId /\ pc' # pc) =>
          /\ pc' = "catch"
          /\ err' = "precondition"
          /\ called' = called
          /\ conversationHistory' = conversationHistory]_vars

\* a drained event met the check without an id and was failed without a call
C21_Witness ==
  /\ pc = "catch"
  /\ err = "precondition"
  /\ cur # 0
  /\ cur \notin called
  /\ ~memorySessionId

\* the in-flight list of the session holds the id e
RecordedInFlight(e) ==
  \E i \in 1..Len(processingMessageIds) : processingMessageIds[i] = e

\* C30: the id of a drained event is recorded in the session's in-flight list
\* before the provider call for it is issued: while an event-driven call is
\* in flight, the current event's id is in processingMessageIds
C30_RecordedBeforeCall ==
  pc = "ev_call" => (cur # 0 /\ RecordedInFlight(cur))

\* the primary's call for a drained event is in flight and the list holds
\* exactly that event
C30_Witness ==
  /\ pc = "ev_call"
  /\ agent = "primary"
  /\ cur # 0
  /\ processingMessageIds = <<cur>>

C23_SameConfigForEveryCall ==
  callConfig # <<>> => callConfig = runConfig

\* total usage a reply reports in the shape of its call
ReportedTotal == TokensUsed(reply[1], isAnthropic)

\* C25: whenever an accepted provider reply reports a total usage above the
\* threshold, the high-usage warning is logged for the call and the session's
\* token counters have grown once the call has been accounted for
C25_HighUsageWarnsAndCounts ==
  (/\ cpc \in {"tracked", "completed"}
   /\ reply[1].usage # <<>>
   /\ ReportedTotal > HIGH_USAGE_THRESHOLD) =>
    /\ ReportedTotal \in usageWarnings
    /\ cumulativeInputTokens + cumulativeOutputTokens > 0

\* C24: with finitely many events, a started run in which no call or
\* persistence step fails and no abort is raised eventually completes, and
\* the runner completes only when no event is pending
C24_DrainsThenCompletes ==
  /\ [][(pc' = "done" /\ pc # "done") => Pending(status) = {}]_vars
  /\ (pc = "init_call" /\ agent = "primary") ~> (pc = "done" \/ err # "none" \/ aborted)

\* a first run without failure, failover or abort completed after draining
\* every event
C24_Witness ==
  /\ pc = "done"
  /\ runs = 1
  /\ agent = "primary"
  /\ ~aborted
  /\ delivered = Events
  /\ \A e \in Events : status[e] = "confirmed"

\* C29: an abort signal raised while a provider call is in flight interrupts
\* that call: once the signal is up, the call ends with the cancellation
\* error, never with the provider's reply
C29_AbortInterruptsCall ==
  [][(aborted /\ pc \in {"init_call", "ev_call"} /\ pc' # pc) =>
       (pc' = "catch" /\ err' = "abort")]_vars

\* the entry e of the whitelist names the origin o: same host, and the same
\* scheme when the entry has one; the ports are not compared
EntryNames(e, o) == e.host = o.host /\ (e.scheme = <<>> \/ e.scheme = o.scheme)

\* C26: in remote mode a request with an Origin header passes the CORS check
\* only if an entry of CLAUDE_MEM_ALLOWED_ORIGINS names its origin, the port
\* ignored; an origin that no entry names is rejected
C26_RemoteAcceptsOnlyWhitelisted ==
  (remoteModeSetting = "true" /\ reqOrigin # <<>> /\ corsResult # "none") =>
    \A o \in Origins :
      (reqOrigin = <<OriginString(o)>> /\ corsResult = "allowed") =>
        \E i \in 1..Len(allowedOrigins) : EntryNames(allowedOrigins[i], o)

NonLocalAddresses == ClientAddresses \ {"127.0.0.1", "::1", "::ffff:127.0.0.1"}

\* C27: an admin request from an address that is not localhost is passed on
\* exactly when remote mode and remote admin are both 'true'; in every other
\* combination of the two settings it is answered 403 and next() is not called
C27_RemoteAdminNeedsBothSettings ==
  (adminResult # <<>> /\ clientIp \in NonLocalAddresses) =>
    IF remoteModeSetting = "true" /\ allowRemoteAdmin = "true"
      THEN adminResult[1].next /\ adminResult[1].status = 0
      ELSE adminResult[1].status = 403 /\ ~adminResult[1].next

\* remote mode without remote admin: a request from the network got the 403
C27_Witness ==
  /\ remoteModeSetting = "true"
  /\ allowRemoteAdmin = "false"
  /\ clientIp = "192.168.1.50"
  /\ adminResult = <<[status |-> 403, next |-> FALSE]>>

LocalHosts == {<<"localhost">>, <<"127.0.0.1">>}

\* C28: in local mode a request with an Origin header passes the CORS check
\* only if the origin's host is localhost or 127.0.0.1 and every other origin
\* is rejected; a request without an Origin header passes in both modes
C28_LocalAcceptsOnlyLocalOrigins ==
  /\ (remoteModeSetting # "true" /\ reqOrigin # <<>> /\ corsResult # "none") =>
       \A o \in Origins :
         reqOrigin = <<OriginString(o)>> =>
           /\ corsResult = "allowed" => o.host \in LocalHosts
           /\ o.host \notin LocalHosts => corsResult = "rejected"
  /\ (reqOrigin = <<>> /\ corsResult # "none") => corsResult = "allowed"

\* local mode: a page served from localhost:8080 passed the check
C28_Witness ==
  /\ remoteModeSetting = "false"
  /\ reqOrigin = <<OriginString([scheme |-> <<"http">>, host |-> <<"localhost">>,
                                  port |-> <<":", "8080">>])>>
  /\ corsResult = "allowed"

\* the entries of the run's log that report a failure
FailureDiagnostics ==
  {i \in 1..Len(diagnostics) : diagnostics[i].level \in {"error", "failure"}}

\* C31: a session that ended in failure has exactly one failure diagnostic in
\* its log, in local and in remote mode
C31_OneFailureDiagnostic ==
  pc = "failed" => Cardinality(FailureDiagnostics) = 1

\* the provider accepted the call and its reply carries no text
EmptyTextReply ==
  /\ reply # <<>>
  /\ ResponseOk(reply[1].status)
  /\ ~HasBodyError(reply[1])
  /\ ~reply[1].content

\* C32: a successful call that returns empty text is a soft failure: nothing
\* is thrown (so the catch block and the fallback are not reached), the call
\* returns the empty text, the token counters stay as they were, and the run
\* goes on
C32_EmptyTextIsSoftFailure ==
  EmptyTextReply =>
    /\ thrown = <<>>
    /\ cpc \in {"returned", "tracked", "completed"}
    /\ returned = <<[content |-> "", tokensUsed |-> returned[1].tokensUsed]>>
    /\ cumulativeInputTokens = 0
    /\ cumulativeOutputTokens = 0

\* a messages-shape reply without text that reports usage was accounted for
\* and the run went on to its end
C32_Witness ==
  /\ EmptyTextReply
  /\ isAnthropic
  /\ reply[1].usage # <<>>
  /\ cpc = "completed"
  /\ cumulativeInputTokens = 0

\* x is the floor of num * t / 10
IsFloorOfTenths(x, num, t) == 10 * x <= num * t /\ num * t < 10 * (x + 1)

\* C33: for a response with text and reported usage t the input counter
\* grows by floor(0.7 t) and the output counter by floor(0.3 t); the counters
\* do not decrease and together they grow by at most t
C33_CountersGrowByFloorShares ==
  (cpc \in {"tracked", "completed"} /\ returned[1].content # "") =>
    /\ IsFloorOfTenths(cumulativeInputTokens, 7, ReportedTotal)
    /\ IsFloorOfTenths(cumulativeOutputTokens, 3, ReportedTotal)
    /\ cumulativeInputTokens >= 0
    /\ cumulativeOutputTokens >= 0
    /\ cumulativeInputTokens + cumulativeOutputTokens <= ReportedTotal

\* positions of the user turns of the bounded conversation
UserTurns == {i \in 1..Len(truncatedHistory) : truncatedHistory[i].role = "user"}

\* C34: in a messages-shape request the system field is the content of the
\* first user turn of the conversation the request is built from (empty when
\* there is none), and the message list is that conversation from its first
\* user turn on, order and contents kept; a non-empty list starts with a user
\* turn
C34_SystemAndMessagesFromFirstUserTurn ==
  requestShape = "anthropic" =>
    IF UserTurns = {}
      THEN requestSystem = 0 /\ requestMessages = <<>>
      ELSE /\ requestSystem = truncatedHistory[Min(UserTurns)].chars
           /\ Len(requestMessages) = Len(truncatedHistory) - Min(UserTurns) + 1
           /\ \A k \in 1..Len(requestMessages) :
                requestMessages[k] = truncatedHistory[Min(UserTurns) + k - 1]
           /\ requestMessages[1].role = "user"

\* a bounded conversation that starts with an assistant turn was sent in the
\* messages shape: the turn is dropped and the system field has the content
\* of the user turn after it
C34_Witness ==
  /\ requestShape = "anthropic"
  /\ Len(truncatedHistory) >= 2
  /\ truncatedHistory[1].role = "assistant"
  /\ truncatedHistory[2].role = "user"
  /\ truncatedHistory[1].chars # truncatedHistory[2].chars
  /\ requestSystem = truncatedHistory[2].chars
  /\ Len(requestMessages) = Len(truncatedHistory) - 1

\* C35: in every messages-shape request the message list alternates user and
\* assistant turns and starts with a user turn: no two consecutive entries
\* have the same role
C35_MessagesAlternate ==
  requestShape = "anthropic" =>
    /\ requestMessages # <<>> => requestMessages[1].role = "user"
    /\ \A k \in 1..(Len(requestMessages) - 1) :
         requestMessages[k].role # requestMessages[k + 1].role

\* C36: in remote mode with CLAUDE_MEM_ALLOWED_ORIGINS empty, every request
\* that carries an Origin header is rejected by the CORS check
C36_EmptyWhitelistRejectsAll ==
  (remoteModeSetting = "true" /\ allowedOrigins = <<>> /\ reqOrigin # <<>>
     /\ corsResult # "none") => corsResult = "rejected"

\* C38: whenever the conversation history is not empty, the bounded
\* conversation placed in the request is not empty either, and the most
\* recent turn is its last turn, whatever the message and token limits are
C38_MostRecentTurnIsSent ==
  (requestShape # "none" /\ history # <<>>) =>
    /\ truncatedHistory # <<>>
    /\ truncatedHistory[Len(truncatedHistory)] = history[Len(history)]

\* C39: whenever an endpoint suffix is appended, the format decision taken
\* there and the one taken when the request is built agree, and the request goes to an
\* endpoint that fits its shape: the messages shape to a URL ending in a
\* messages suffix, the generic shape to a URL ending in a completions suffix
C39_ShapeFitsEndpoint ==
  cpc = "fetching" =>
    /\ ~HasEndpoint(urlSetting) =>
         isAnthropic = ConfigIsAnthropic(urlSetting, FormatOrAuto(apiFormat))
    /\ isAnthropic => EndsWith(apiUrl, V1_MESSAGES) \/ EndsWith(apiUrl, MESSAGES)
    /\ ~isAnthropic => EndsWith(apiUrl, CHAT_COMPLETIONS) \/ EndsWith(apiUrl, COMPLETIONS)

\* a successfully fetched result younger than five minutes, its age counted
\* from the timestamp the hook gives it
FreshResult == \E f \in fetched : clock - f.now < CACHE_DURATION_MS

SidebarOpens == ~isSidebarOpen /\ isSidebarOpen'

\* C37: a fetch is issued only when the sidebar goes from closed to open and
\* no successfully fetched result is younger than five minutes; when there is
\* such a result, opening the sidebar issues no fetch and sets the stats to
\* the cached data; a failed fetch leaves the cache as it was
C37_FetchOnlyWithoutFreshResult ==
  [][/\ fetchCount' # fetchCount => SidebarOpens /\ ~FreshResult
     /\ (SidebarOpens /\ FreshResult) =>
          /\ fetchCount' = fetchCount
          /\ cacheRef # <<>>
          /\ stats' = cacheRef[1].data
     /\ (pendingFetches' # pendingFetches /\ fetchCount' = fetchCount /\ fetched' = fetched) =>
          cacheRef' = cacheRef]_vars

\* C40: at most one project-stats fetch is in flight at any time, and the
\* stats and the cache hold the reply of the newest fetch that has completed,
\* never that of an older one
C40_OneFetchInFlight ==
  /\ Cardinality(pendingFetches) <= 1
  /\ \A f \in fetched :
       /\ cacheRef # <<>> /\ cacheRef[1].data >= f.id
       /\ stats >= f.id

TypeOK ==
  /\ status \in [Events -> {"none", "pending", "processing", "confirmed"}]
  /\ kind \in [Events -> Kinds]
  /\ persisted \subseteq Events
  /\ pc \in {"idle", "init_call", "init_proc", "iter", "got", "ev_call", "ev_proc",
             "catch", "fb_start"} \cup Terminal
  /\ agent \in Agents
  /\ cur \in Events \cup {0}
  /\ err \in ErrorKinds \cup {"none"}
  /\ raised \in ErrorKinds \cup {"none"}
  /\ runs \in 0..MaxRuns

====
